---- MODULE Spec2Model ----
(***************************************************************************)
(* A model of src/pages/main.ts of badlogic/hoasis: the MainPage element   *)
(* (location selection, timeseries fetch, year stacking, chart projection) *)
(* and the helpers dateString and createChart.                             *)
(*                                                                         *)
(* Conventions                                                             *)
(*   - a JavaScript string whose characters matter is a sequence of        *)
(*     one-character strings; its length is Len;                           *)
(*   - an optional value (x?: T) is a sequence of length 0 or 1;           *)
(*   - a JavaScript array of numbers-or-null is a record                   *)
(*     [length, at]: `at' maps the indices that hold a number to that      *)
(*     number, every other index below `length' holds null;                *)
(*   - a calendar date is <<year, month, day>> with month in 1..12;        *)
(*   - coordinates are in hundredths of a degree.                          *)
(***************************************************************************)
EXTENDS Integers, Sequences, FiniteSets, Bags, TLC

VARIABLES
    phase,          \* "constructed" until firstUpdated has run, then "ready"
    today,          \* the calendar day `new Date()' returned at construction
    isLoading,      \* MainPage.isLoading
    error,          \* MainPage.error
    searchResults,  \* MainPage.searchResults
    lat, lng,       \* MainPage.lat, MainPage.lng
    marker,         \* MainPage.marker (optional)
    mapMarkers,     \* the markers that are on the Leaflet map (a bag of positions)
    mapCenter,      \* the centre of the map's view
    data,           \* MainPage.data (optional)
    chart,          \* (canvas as any).__chart (optional)
    constructed,    \* number of `new Chart' calls so far
    stackYears, firstLastYear, minTemp, maxTemp,   \* the checkboxes' .checked
    startDateInput, endDateInput,                  \* the date inputs' .value
    loads,          \* the loadData calls that are suspended at an await
    searches,       \* the search calls that are suspended at an await
    lastEvent,      \* history: the handler or continuation that ran last
    events          \* history: the number of user events handled so far

vars == <<phase, today, isLoading, error, searchResults, lat, lng, marker,
          mapMarkers, mapCenter, data, chart, constructed, stackYears,
          firstLastYear, minTemp, maxTemp, startDateInput, endDateInput,
          loads, searches, lastEvent, events>>

-----------------------------------------------------------------------------
(* Bounds of the model *)

\* samples in a timeseries drawn for the year-stacking specification
MaxLen == 3
\* user events (firstUpdated, clicks, selections, edits, toggles, searches) in a run
MaxEvents == 3

-----------------------------------------------------------------------------
(* Calendar arithmetic, as Date and moment compute it *)

IsLeap(y) == (y % 4 = 0 /\ y % 100 # 0) \/ y % 400 = 0

DaysInMonth(y, m) ==
    IF m = 2 THEN (IF IsLeap(y) THEN 29 ELSE 28)
    ELSE IF m \in {4, 6, 9, 11} THEN 30 ELSE 31

IsDate(d) ==
    /\ d[2] \in 1..12
    /\ d[3] \in 1..DaysInMonth(d[1], d[2])

RECURSIVE DaysBefore(_, _)
DaysBefore(y, m) == IF m = 1 THEN 0 ELSE DaysBefore(y, m - 1) + DaysInMonth(y, m - 1)

\* moment(date).dayOfYear(): 1-based
DayOfYear(d) == DaysBefore(d[1], d[2]) + d[3]

\* moment(<Jan 1 of y>).add(i, "days"), for a day that stays inside year y
AddDays(y, i) ==
    CHOOSE d \in {y} \X (1..12) \X (1..31) : IsDate(d) /\ DayOfYear(d) = i + 1

-----------------------------------------------------------------------------
(* Strings *)

Digit == <<"0", "1", "2", "3", "4", "5", "6", "7", "8", "9">>

IsDigit(c) == \E i \in 1..10 : Digit[i] = c

DigitValue(c) == (CHOOSE i \in 1..10 : Digit[i] = c) - 1

\* Number.prototype.toString for a natural number
RECURSIVE NumToString(_)
NumToString(n) ==
    IF n < 10 THEN <<Digit[n + 1]>> ELSE NumToString(n \div 10) \o <<Digit[(n % 10) + 1]>>

\* s.padStart(2, "0")
PadStart2(s) == IF Len(s) < 2 THEN <<"0">> \o s ELSE s

\* the value of a string of digits
RECURSIVE DigitsValue(_)
DigitsValue(s) ==
    IF s = <<>> THEN 0
    ELSE DigitsValue(SubSeq(s, 1, Len(s) - 1)) * 10 + DigitValue(s[Len(s)])

AllDigits(s) == \A i \in 1..Len(s) : IsDigit(s[i])

-----------------------------------------------------------------------------
(* dateString and the date inputs *)

\* a JavaScript Date of local calendar day d: getMonth() is 0-based, getDate() 1-based
JSDate(d) == [fullYear |-> d[1], month |-> d[2] - 1, date |-> d[3]]

\* main.ts, dateString
dateString(date) ==
    NumToString(date.fullYear) \o <<"-">>
        \o PadStart2(NumToString(date.month + 1)) \o <<"-">>
        \o PadStart2(NumToString(date.date + 1))

\* the text "YYYY-MM-DD" of calendar day d
IsoDate(d) ==
    NumToString(d[1]) \o <<"-">> \o PadStart2(NumToString(d[2])) \o <<"-">>
        \o PadStart2(NumToString(d[3]))

\* whether s is the text YYYY-MM-DD of a day of the calendar
IsValidDateString(s) ==
    /\ Len(s) = 10
    /\ s[5] = "-" /\ s[8] = "-"
    /\ AllDigits(SubSeq(s, 1, 4)) /\ AllDigits(SubSeq(s, 6, 7)) /\ AllDigits(SubSeq(s, 9, 10))
    /\ IsDate(<<DigitsValue(SubSeq(s, 1, 4)), DigitsValue(SubSeq(s, 6, 7)),
                DigitsValue(SubSeq(s, 9, 10))>>)

\* <input type="date" value=...>: a value that is no valid date string reads back as ""
DateInputValue(s) == IF IsValidDateString(s) THEN s ELSE <<>>

\* MainPage.startDate and MainPage.endDate, constructed on calendar day t
startDate(t) == JSDate(<<t[1] - 2, 1, 1>>)
endDate(t) == JSDate(t)

-----------------------------------------------------------------------------
(* parseFloat, for the decimal numerals a geocoder returns; the result is in
   hundredths of a degree, further decimals are cut *)

LeadingDigits(s) ==
    CHOOSE k \in 0..Len(s) :
        /\ AllDigits(SubSeq(s, 1, k))
        /\ (k = Len(s) \/ ~IsDigit(s[k + 1]))

parseFloat(s) ==
    LET k == LeadingDigits(s)
        rest == SubSeq(s, k + 1, Len(s))
        frac == IF rest # <<>> /\ rest[1] = "."
                THEN SubSeq(rest, 2, 1 + LeadingDigits(SubSeq(rest, 2, Len(rest))))
                ELSE <<>>
        frac2 == SubSeq(frac \o <<"0", "0">>, 1, 2)
    IN  DigitsValue(SubSeq(s, 1, k)) * 100 + DigitsValue(frac2)

-----------------------------------------------------------------------------
(* JavaScript arrays of numbers-or-null *)

NoNumbers == [i \in {} |-> 0]

\* Array(n).fill(null)
ArrayOfNull(n) == [length |-> n, at |-> NoNumbers]

\* a[i]: <<x>> for the number x, <<>> for null (or for no element)
ArrayGet(a, i) == IF i \in DOMAIN a.at THEN <<a.at[i]>> ELSE <<>>

\* an assignment that stores 0 for null
ArraySetZeroForNull(a, i, v) ==
    [length |-> IF i >= a.length THEN i + 1 ELSE a.length,
     at |-> [j \in DOMAIN a.at \cup {i} |->
                IF j = i THEN (IF v # <<>> THEN v[1] ELSE 0) ELSE a.at[j]]]

\* a[i] = v: an index at or past the end grows the array
ArraySet(a, i, v) ==
    [length |-> IF i >= a.length THEN i + 1 ELSE a.length,
     at |-> [j \in (DOMAIN a.at \ {i}) \cup (IF v # <<>> THEN {i} ELSE {}) |->
                IF j = i THEN v[1] ELSE a.at[j]]]

\* the array of a sequence of optional numbers
ArrayFrom(s) ==
    [length |-> Len(s),
     at |-> [j \in {i - 1 : i \in {k \in 1..Len(s) : s[k] # <<>>}} |-> s[j + 1][1]]]

-----------------------------------------------------------------------------
(* createChart *)

\* datasets.forEach: pointRadius = 0, and borderWidth = 1 where it is not set
NormalizeDataset(ds) ==
    [label |-> ds.label, data |-> ds.data, borderColor |-> ds.borderColor,
     fill |-> ds.fill, pointRadius |-> 0,
     borderWidth |-> IF ds.borderWidth = 0 THEN 1 ELSE ds.borderWidth]

\* createChart without the `if ((canvas as any).__chart)' branch: a new Chart on
\* every call
createChartAlwaysNew(c, labels, datasets, dateFormat) ==
    [chart |-> <<[labels |-> labels,
                  datasets |-> [i \in 1..Len(datasets) |-> NormalizeDataset(datasets[i])],
                  dayFormat |-> dateFormat]>>,
     built |-> 1]

\* main.ts, createChart: c is the canvas's __chart (optional). The result is the
\* canvas's __chart afterwards and the number of Chart instances constructed.
createChart(c, labels, datasets, dateFormat) ==
    LET normal == [i \in 1..Len(datasets) |-> NormalizeDataset(datasets[i])]
    IN  IF c # <<>>
        THEN [chart |-> <<[c[1] EXCEPT !.labels = labels, !.datasets = normal,
                                        !.dayFormat = dateFormat]>>,
              built |-> 0]
        ELSE [chart |-> <<[labels |-> labels, datasets |-> normal,
                           dayFormat |-> dateFormat]>>,
              built |-> 1]

-----------------------------------------------------------------------------
(* renderCharts *)

\* the length of a year's bucket
BucketLength == 365

\* moment(date).format("YYYY"), for a year of at most four digits
YearKey(d) ==
    LET t == NumToString(d[1])
    IN  SubSeq(<<"0", "0", "0">>, 1, 4 - Len(t)) \o t

\* the order Array.prototype.sort() puts strings in (by code unit; digits here)
RECURSIVE StringLess(_, _)
StringLess(a, b) ==
    IF a = <<>> THEN b # <<>>
    ELSE IF b = <<>> THEN FALSE
    ELSE IF a[1] # b[1] THEN DigitValue(a[1]) < DigitValue(b[1])
    ELSE StringLess(Tail(a), Tail(b))

\* Object.keys(yearlyData).sort()
RECURSIVE SortedKeys(_)
SortedKeys(S) ==
    IF S = {} THEN <<>>
    ELSE LET least == CHOOSE k \in S : \A o \in S \ {k} : StringLess(k, o)
         IN  <<least>> \o SortedKeys(S \ {least})

\* the first forEach: a bucket pair of nulls for each year present
EmptyYearlyData(dates) ==
    [year \in {YearKey(dates[i]) : i \in 1..Len(dates)} |->
        [minTemps |-> ArrayOfNull(BucketLength), maxTemps |-> ArrayOfNull(BucketLength)]]

\* the second forEach, from sample `index' (0-based) on
RECURSIVE Populate(_, _, _, _, _)
Populate(yearlyData, dates, tn, tx, index) ==
    IF index >= Len(dates) THEN yearlyData
    ELSE LET date == dates[index + 1]
             year == YearKey(date)
             dayOfYear == DayOfYear(date) - 1
             bucket == yearlyData[year]
         IN  Populate([yearlyData EXCEPT ![year] =
                           [minTemps |-> ArraySet(bucket.minTemps, dayOfYear, ArrayGet(tn, index)),
                            maxTemps |-> ArraySet(bucket.maxTemps, dayOfYear, ArrayGet(tx, index))]],
                      dates, tn, tx, index + 1)

\* lines 238-252: the buckets of every year of the series
YearlyData(d) ==
    Populate(EmptyYearlyData(d.timestamps), d.timestamps, d.features[1].TN, d.features[1].TX, 0)

\* (1 - baseOpacity * (years.length - index)) * 0.6 + 0.4 with baseOpacity = 1/n,
\* as the fraction <<numerator, denominator>>; 1 for the last year
Opacity(n, index) == IF index = n - 1 THEN <<1, 1>> ELSE <<2 * n + 3 * index, 5 * n>>

\* one of the two years.forEach loops, from `index' (0-based) on:
\* series is "Min Temp" or "Max Temp", wanted the series' checkbox
RECURSIVE YearLoop(_, _, _, _, _, _)
YearLoop(yearlyData, years, series, wanted, firstLast, index) ==
    IF index >= Len(years) THEN <<>>
    ELSE LET n == Len(years)
             year == years[index + 1]
             isLast == index = n - 1
             isFirstOrLast == index = 0 \/ isLast
             here ==
                IF firstLast /\ ~isFirstOrLast THEN <<>>
                ELSE IF ~wanted THEN <<>>
                ELSE <<[label |-> [text |-> series, year |-> year],
                        data |-> IF series = "Min Temp" THEN yearlyData[year].minTemps
                                 ELSE yearlyData[year].maxTemps,
                        borderColor |->
                            IF series = "Min Temp"
                            THEN (IF isLast THEN [rgb |-> <<54, 100, 235>>, a |-> <<1, 1>>]
                                  ELSE [rgb |-> <<54, 162, 235>>, a |-> Opacity(n, index)])
                            ELSE (IF isLast THEN [rgb |-> <<255, 50, 50>>, a |-> <<1, 1>>]
                                  ELSE [rgb |-> <<255, 99, 132>>, a |-> Opacity(n, index)]),
                        borderWidth |-> IF isLast THEN 2 ELSE 1,
                        fill |-> FALSE]>>
         IN  here \o YearLoop(yearlyData, years, series, wanted, firstLast, index + 1)

\* the stacked datasets with the maximum loop run before the minimum loop
StackedDatasetsMaxFirst(d, firstLast, showMin, showMax) ==
    LET yearlyData == YearlyData(d)
        years == SortedKeys(DOMAIN yearlyData)
    IN  YearLoop(yearlyData, years, "Max Temp", showMax, firstLast, 0)
            \o YearLoop(yearlyData, years, "Min Temp", showMin, firstLast, 0)

\* the stacked datasets with first/last-year as "the first year, then the last
\* year" instead of a filter on the index
StackedDatasetsFirstThenLast(d, firstLast, showMin, showMax) ==
    LET yearlyData == YearlyData(d)
        years == SortedKeys(DOMAIN yearlyData)
        kept == IF firstLast /\ years # <<>> THEN <<years[1], years[Len(years)]>> ELSE years
    IN  YearLoop(yearlyData, kept, "Min Temp", showMin, FALSE, 0)
            \o YearLoop(yearlyData, kept, "Max Temp", showMax, FALSE, 0)

\* lines 254-294: the datasets of the stacked view
StackedDatasets(d, firstLast, showMin, showMax) ==
    LET yearlyData == YearlyData(d)
        years == SortedKeys(DOMAIN yearlyData)
    IN  YearLoop(yearlyData, years, "Min Temp", showMin, firstLast, 0)
            \o YearLoop(yearlyData, years, "Max Temp", showMax, firstLast, 0)

\* line 297: moment("0000-01-01").add(i, "days").format("MMM D"), as <<month, day>>
StackedLabels ==
    [i \in 1..BucketLength |-> LET day == AddDays(0, i - 1) IN <<day[2], day[3]>>]

\* lines 301-303: the datasets of the unstacked view (borderWidth 0: not set)
UnstackedDatasets(d, showMin, showMax) ==
    (IF showMin
     THEN <<[label |-> [text |-> "Min. Temp", year |-> <<>>], data |-> d.features[1].TN,
             borderColor |-> [rgb |-> <<54, 162, 235>>, a |-> <<1, 1>>],
             borderWidth |-> 0, fill |-> FALSE]>>
     ELSE <<>>)
    \o
    (IF showMax
     THEN <<[label |-> [text |-> "Max. Temp", year |-> <<>>], data |-> d.features[1].TX,
             borderColor |-> [rgb |-> <<255, 99, 132>>, a |-> <<1, 1>>],
             borderWidth |-> 0, fill |-> FALSE]>>
     ELSE <<>>)

\* renderCharts without `if (!this.data) return': with no data it draws a chart
\* with no labels and no datasets
renderChartsDrawsEmpty(c, dat, stack, firstLast, showMin, showMax) ==
    IF dat = <<>>
    THEN LET made == createChart(c, <<>>, <<>>, IF stack THEN "DD-MM" ELSE "YYYY-MM-DD")
         IN  [chart |-> made.chart, built |-> made.built, threw |-> FALSE]
    ELSE IF dat[1].features = <<>> THEN [chart |-> c, built |-> 0, threw |-> TRUE]
    ELSE LET made ==
                IF stack
                THEN createChart(c, StackedLabels,
                                 StackedDatasets(dat[1], firstLast, showMin, showMax), "DD-MM")
                ELSE createChart(c, dat[1].timestamps,
                                 UnstackedDatasets(dat[1], showMin, showMax), "YYYY-MM-DD")
         IN  [chart |-> made.chart, built |-> made.built, threw |-> FALSE]

\* main.ts, MainPage.renderCharts, on the canvas chart c, the stored data dat and
\* the four checkboxes. The result is the canvas's chart afterwards, the number of
\* Chart instances constructed, and whether the call threw (features[0] is
\* undefined: the promise of the async function rejects).
renderCharts(c, dat, stack, firstLast, showMin, showMax) ==
    IF dat = <<>> THEN [chart |-> c, built |-> 0, threw |-> FALSE]
    ELSE IF dat[1].features = <<>> THEN [chart |-> c, built |-> 0, threw |-> TRUE]
    ELSE LET made ==
                IF stack
                THEN createChart(c, StackedLabels,
                                 StackedDatasets(dat[1], firstLast, showMin, showMax), "DD-MM")
                ELSE createChart(c, dat[1].timestamps,
                                 UnstackedDatasets(dat[1], showMin, showMax), "YYYY-MM-DD")
         IN  [chart |-> made.chart, built |-> made.built, threw |-> FALSE]

-----------------------------------------------------------------------------
(* Values the environment supplies *)

\* the message loadData and search show for every failure
GenericError == "Whoopsies, da hat etwas nicht funktioniert"

\* the days the page is opened on: one whose next day-of-month exists, one at a
\* month's end
Todays == {<<2024, 3, 15>>, <<2024, 1, 31>>}

\* where the user clicks on the map
ClickPoints == {<<4821, 1637>>}

\* what the user types into a date input
TypedDates == {<<>>, IsoDate(<<2020, 1, 1>>)}

Graz == [lat |-> <<"4", "7", ".", "0", "7">>, lon |-> <<"1", "5", ".", "4", "4">>,
         display_name |-> "Graz"]
Linz == [lat |-> <<"4", "8", ".", "3", "0", "6">>, lon |-> <<"1", "4", ".", "2", "8">>,
         display_name |-> "Linz"]

\* the JSON arrays the geocoding endpoint answers with
SearchResponses == {<<>>, <<Linz, Graz>>, <<Graz, Linz, Graz, Linz>>}

\* a response body of the timeseries endpoint: SpartacusResult, with
\* features[i].properties.parameters.{TN,TX}.data as features[i].{TN,TX}
\* and each timestamp as the local calendar day moment(timestamp) reads from it
Series(dates, tn, tx) ==
    [timestamps |-> dates, features |-> <<[TN |-> ArrayFrom(tn), TX |-> ArrayFrom(tx)]>>]

\* a body that parses as JSON and has no feature
NoFeatures == [timestamps |-> <<>>, features |-> <<>>]

\* the bodies the timeseries endpoint answers with
Bodies ==
    {Series(<<<<2020, 12, 31>>, <<2021, 1, 1>>>>, <<<<3>>, <<>>>>, <<<<7>>, <<9>>>>),
     NoFeatures}

-----------------------------------------------------------------------------
(* The handlers' synchronous code *)

\* setMarker without `if (this.marker) this.marker.remove()'
setMarkerKeepsOld(m, onMap, la, ln) ==
    LET new == [lat |-> la, lng |-> ln]
    IN  [mapCenter |-> <<la, ln>>,
         marker |-> <<new>>,
         mapMarkers |-> onMap (+) SetToBag({new}),
         error |-> ""]

\* MainPage.setMarker: m is this.marker, onMap the markers on the map
setMarker(m, onMap, la, ln) ==
    LET new == [lat |-> la, lng |-> ln]
        removed == IF m # <<>> THEN onMap (-) SetToBag({m[1]}) ELSE onMap
    IN  [mapCenter |-> <<la, ln>>,
         marker |-> <<new>>,
         mapMarkers |-> removed (+) SetToBag({new}),
         error |-> ""]

\* the query of the timeseries request (lines 198-202), parameters decoded
Midnight == <<"T", "0", "0", ":", "0", "0", ":", "0", "0", ".", "0", "0", "0", "Z">>
Request(start, end, la, ln) ==
    [start |-> start \o Midnight, end |-> end \o Midnight, lat_lon |-> <<la, ln>>]

\* loadData that skips the fetch only when both date fields are empty
loadDataBothEmpty(start, end, la, ln, loading, pending, seen) ==
    IF Len(start) = 0 /\ Len(end) = 0
    THEN [error |-> "", isLoading |-> loading, loads |-> pending]
    ELSE [error |-> "", isLoading |-> TRUE,
          loads |-> Append(pending, [pc |-> "fetch", request |-> Request(start, end, la, ln),
                                     seen |-> seen])]

\* MainPage.loadData up to its first await (lines 191-203): the error, the loading
\* flag and the suspended calls afterwards. `seen' is history: the data and the
\* chart at the time the request is issued.
loadData(start, end, la, ln, loading, pending, seen) ==
    IF Len(start) = 0 \/ Len(end) = 0
    THEN [error |-> "", isLoading |-> loading, loads |-> pending]
    ELSE [error |-> "", isLoading |-> TRUE,
          loads |-> Append(pending, [pc |-> "fetch", request |-> Request(start, end, la, ln),
                                     seen |-> seen])]

\* selectResult with lat and lon exchanged
selectResultSwapped(result) == [lat |-> parseFloat(result.lon), lng |-> parseFloat(result.lat)]

\* MainPage.selectResult, lines 324-325: the new coordinate
selectResult(result) == [lat |-> parseFloat(result.lat), lng |-> parseFloat(result.lon)]

\* Array.prototype.slice(0, n)
slice(s, n) == SubSeq(s, 1, IF Len(s) < n THEN Len(s) ELSE n)

\* s without its i-th element
RemoveAt(s, i) == SubSeq(s, 1, i - 1) \o SubSeq(s, i + 1, Len(s))

Event(name) == [name |-> name, load |-> <<>>]
LoadEvent(name, load) == [name |-> name, load |-> <<load>>]

-----------------------------------------------------------------------------
(* The page: the state after construction and first render *)

\* a field that was never assigned
Undefined == "<undefined>"

\* the page constructed and first rendered on one of `days'
InitOn(days) ==
    /\ phase = "constructed"
    /\ today \in days
    /\ isLoading = FALSE
    /\ error = Undefined
    /\ searchResults = <<>>
    /\ lat = 4765
    /\ lng = 1350
    /\ marker = <<>>
    /\ mapMarkers = EmptyBag
    /\ mapCenter = <<>>
    /\ data = <<>>
    /\ chart = <<>>
    /\ constructed = 0
    /\ stackYears = TRUE
    /\ firstLastYear = TRUE
    /\ minTemp = TRUE
    /\ maxTemp = TRUE
    /\ startDateInput = DateInputValue(dateString(startDate(today)))
    /\ endDateInput = DateInputValue(dateString(endDate(today)))
    /\ loads = <<>>
    /\ searches = <<>>
    /\ lastEvent = Event("constructor")
    /\ events = 0

Init == InitOn(Todays)

-----------------------------------------------------------------------------
(* Handlers that set the location: lines 181-189 and 323-328 *)

\* this.lat = la; this.lng = ln; this.setMarker(); this.loadData()
Locate(la, ln, name) ==
    LET placed == setMarker(marker, mapMarkers, la, ln)
        loaded == loadData(startDateInput, endDateInput, la, ln, isLoading, loads,
                           [data |-> data, chart |-> chart])
    IN  /\ events < MaxEvents
        /\ events' = events + 1
        /\ lat' = la
        /\ lng' = ln
        /\ marker' = placed.marker
        /\ mapMarkers' = placed.mapMarkers
        /\ mapCenter' = placed.mapCenter
        /\ error' = loaded.error
        /\ isLoading' = loaded.isLoading
        /\ loads' = loaded.loads
        /\ lastEvent' = Event(name)
        /\ UNCHANGED <<today, searchResults, data, chart, constructed, stackYears,
                       firstLastYear, minTemp, maxTemp, startDateInput, endDateInput,
                       searches>>

\* MainPage.firstUpdated
FirstUpdated ==
    /\ phase = "constructed"
    /\ phase' = "ready"
    /\ Locate(lat, lng, "firstUpdated")

\* the map's click handler
MapClick ==
    /\ phase = "ready"
    /\ UNCHANGED phase
    /\ \E p \in ClickPoints : Locate(p[1], p[2], "mapClick")

\* MainPage.selectResult, from one of the result buttons
SelectResult ==
    /\ phase = "ready"
    /\ UNCHANGED phase
    /\ \E i \in 1..Len(searchResults) :
          LET to == selectResult(searchResults[i])
          IN  Locate(to.lat, to.lng, "selectResult")

-----------------------------------------------------------------------------
(* The date inputs: lines 369-383 *)

DateChanged(start, end) ==
    LET loaded == loadData(start, end, lat, lng, isLoading, loads,
                           [data |-> data, chart |-> chart])
    IN  /\ phase = "ready"
        /\ events < MaxEvents
        /\ events' = events + 1
        /\ startDateInput' = start
        /\ endDateInput' = end
        /\ error' = loaded.error
        /\ isLoading' = loaded.isLoading
        /\ loads' = loaded.loads
        /\ lastEvent' = Event("dateChange")
        /\ UNCHANGED <<phase, today, searchResults, lat, lng, marker, mapMarkers,
                       mapCenter, data, chart, constructed, stackYears, firstLastYear,
                       minTemp, maxTemp, searches>>

StartDateChange ==
    \E v \in TypedDates \ {startDateInput} : DateChanged(v, endDateInput)

EndDateChange ==
    \E v \in TypedDates \ {endDateInput} : DateChanged(startDateInput, v)

-----------------------------------------------------------------------------
(* The checkboxes: lines 385-397 *)

\* a checkbox whose change handler is loadData, as the date inputs' is
CheckboxChangedReloads(stack, firstLast, showMin, showMax) ==
    LET loaded == loadData(startDateInput, endDateInput, lat, lng, isLoading, loads,
                           [data |-> data, chart |-> chart])
    IN  /\ phase = "ready"
        /\ events < MaxEvents
        /\ events' = events + 1
        /\ stackYears' = stack
        /\ firstLastYear' = firstLast
        /\ minTemp' = showMin
        /\ maxTemp' = showMax
        /\ error' = loaded.error
        /\ isLoading' = loaded.isLoading
        /\ loads' = loaded.loads
        /\ lastEvent' = Event("checkbox")
        /\ UNCHANGED <<phase, today, searchResults, lat, lng, marker, mapMarkers,
                       mapCenter, data, chart, constructed, startDateInput,
                       endDateInput, searches>>

\* @change=${() => this.renderCharts()}, the checkboxes being as given
CheckboxChanged(stack, firstLast, showMin, showMax) ==
    LET drawn == renderCharts(chart, data, stack, firstLast, showMin, showMax)
    IN  /\ phase = "ready"
        /\ events < MaxEvents
        /\ events' = events + 1
        /\ stackYears' = stack
        /\ firstLastYear' = firstLast
        /\ minTemp' = showMin
        /\ maxTemp' = showMax
        /\ chart' = drawn.chart
        /\ constructed' = constructed + drawn.built
        /\ lastEvent' = Event("checkbox")
        /\ UNCHANGED <<phase, today, isLoading, error, searchResults, lat, lng, marker,
                       mapMarkers, mapCenter, data, startDateInput, endDateInput,
                       loads, searches>>

ToggleStackYears == CheckboxChanged(~stackYears, firstLastYear, minTemp, maxTemp)
ToggleFirstLastYear == CheckboxChanged(stackYears, ~firstLastYear, minTemp, maxTemp)
ToggleMinTemp == CheckboxChanged(stackYears, firstLastYear, ~minTemp, maxTemp)
ToggleMaxTemp == CheckboxChanged(stackYears, firstLastYear, minTemp, ~maxTemp)

-----------------------------------------------------------------------------
(* loadData after its awaits: lines 201-212 *)

\* a catch block that also drops the stored data and the chart
LoadCaughtClears(i, name) ==
    /\ error' = GenericError
    /\ isLoading' = FALSE
    /\ data' = <<>>
    /\ chart' = <<>>
    /\ loads' = RemoveAt(loads, i)
    /\ lastEvent' = LoadEvent(name, loads[i])
    /\ UNCHANGED <<phase, today, searchResults, lat, lng, marker, mapMarkers, mapCenter,
                   constructed, stackYears, firstLastYear, minTemp, maxTemp,
                   startDateInput, endDateInput, searches, events>>

\* a catch block with no finally after it: the flag is reset on success only
LoadCaughtKeepsLoading(i, name) ==
    /\ error' = GenericError
    /\ loads' = RemoveAt(loads, i)
    /\ lastEvent' = LoadEvent(name, loads[i])
    /\ UNCHANGED <<phase, today, isLoading, searchResults, lat, lng, marker, mapMarkers,
                   mapCenter, data, chart, constructed, stackYears, firstLastYear,
                   minTemp, maxTemp, startDateInput, endDateInput, searches, events>>

\* catch (e) { this.error = ...; console.error(e) } finally { this.isLoading = false }
LoadCaught(i, name) ==
    /\ error' = GenericError
    /\ isLoading' = FALSE
    /\ loads' = RemoveAt(loads, i)
    /\ lastEvent' = LoadEvent(name, loads[i])
    /\ UNCHANGED <<phase, today, searchResults, lat, lng, marker, mapMarkers, mapCenter,
                   data, chart, constructed, stackYears, firstLastYear, minTemp, maxTemp,
                   startDateInput, endDateInput, searches, events>>

\* fetch rejects: no response
LoadNetworkError ==
    \E i \in 1..Len(loads) :
        /\ loads[i].pc = "fetch"
        /\ LoadCaught(i, "loadNetworkError")

\* a loadData that fetches again when the status is not 2xx
LoadResponseRetries ==
    \E i \in 1..Len(loads), ok \in BOOLEAN :
        /\ loads[i].pc = "fetch"
        /\ loads' = IF ok THEN [loads EXCEPT ![i].pc = "json"]
                        ELSE Append([loads EXCEPT ![i].pc = "text"],
                                    [loads[i] EXCEPT !.pc = "fetch"])
        /\ lastEvent' = Event("loadResponse")
        /\ UNCHANGED <<phase, today, isLoading, error, searchResults, lat, lng, marker,
                       mapMarkers, mapCenter, data, chart, constructed, stackYears,
                       firstLastYear, minTemp, maxTemp, startDateInput, endDateInput,
                       searches, events>>

\* fetch resolves: with response.ok the call awaits response.json(), without it
\* awaits response.text()
LoadResponse ==
    \E i \in 1..Len(loads), ok \in BOOLEAN :
        /\ loads[i].pc = "fetch"
        /\ loads' = [loads EXCEPT ![i].pc = IF ok THEN "json" ELSE "text"]
        /\ lastEvent' = Event("loadResponse")
        /\ UNCHANGED <<phase, today, isLoading, error, searchResults, lat, lng, marker,
                       mapMarkers, mapCenter, data, chart, constructed, stackYears,
                       firstLastYear, minTemp, maxTemp, startDateInput, endDateInput,
                       searches, events>>

\* response.text() settles: throw new Error(...)
LoadStatusError ==
    \E i \in 1..Len(loads) :
        /\ loads[i].pc = "text"
        /\ LoadCaught(i, "loadStatusError")

\* response.json() rejects: the body is no JSON
LoadParseError ==
    \E i \in 1..Len(loads) :
        /\ loads[i].pc = "json"
        /\ LoadCaught(i, "loadParseError")

\* a completion that stores its body only when no newer request has been issued
LoadBodyNewestWins(i, body) ==
    LET newest == i = Len(loads)
        drawn == renderCharts(chart, <<body>>, stackYears, firstLastYear, minTemp, maxTemp)
    IN  /\ loads[i].pc = "json"
        /\ data' = IF newest THEN <<body>> ELSE data
        /\ chart' = IF newest THEN drawn.chart ELSE chart
        /\ constructed' = IF newest THEN constructed + drawn.built ELSE constructed
        /\ isLoading' = FALSE
        /\ loads' = RemoveAt(loads, i)
        /\ lastEvent' = LoadEvent("loadBody", loads[i])
        /\ UNCHANGED <<phase, today, error, searchResults, lat, lng, marker, mapMarkers,
                       mapCenter, stackYears, firstLastYear, minTemp, maxTemp,
                       startDateInput, endDateInput, searches, events>>

\* response.json() resolves with body: this.data = body; this.renderCharts()
\* (not awaited: what it throws is not caught here); finally
LoadBody(i, body) ==
    LET drawn == renderCharts(chart, <<body>>, stackYears, firstLastYear, minTemp, maxTemp)
    IN  /\ loads[i].pc = "json"
        /\ data' = <<body>>
        /\ chart' = drawn.chart
        /\ constructed' = constructed + drawn.built
        /\ isLoading' = FALSE
        /\ loads' = RemoveAt(loads, i)
        /\ lastEvent' = LoadEvent("loadBody", loads[i])
        /\ UNCHANGED <<phase, today, error, searchResults, lat, lng, marker, mapMarkers,
                       mapCenter, stackYears, firstLastYear, minTemp, maxTemp,
                       startDateInput, endDateInput, searches, events>>

LoadJson ==
    \E i \in 1..Len(loads), body \in Bodies : LoadBody(i, body)

-----------------------------------------------------------------------------
(* search: lines 309-321 *)

\* search() up to its await of fetch
Search ==
    /\ phase = "ready"
    /\ events < MaxEvents
    /\ events' = events + 1
    /\ searches' = Append(searches, [pc |-> "fetch"])
    /\ lastEvent' = Event("search")
    /\ UNCHANGED <<phase, today, isLoading, error, searchResults, lat, lng, marker,
                   mapMarkers, mapCenter, data, chart, constructed, stackYears,
                   firstLastYear, minTemp, maxTemp, startDateInput, endDateInput, loads>>

\* catch (e) { this.error = ... } finally { this.isLoading = false }
SearchCaught(i, name) ==
    /\ error' = GenericError
    /\ isLoading' = FALSE
    /\ searches' = RemoveAt(searches, i)
    /\ lastEvent' = Event(name)
    /\ UNCHANGED <<phase, today, searchResults, lat, lng, marker, mapMarkers, mapCenter,
                   data, chart, constructed, stackYears, firstLastYear, minTemp, maxTemp,
                   startDateInput, endDateInput, loads, events>>

\* fetch rejects
SearchNetworkError ==
    \E i \in 1..Len(searches) :
        /\ searches[i].pc = "fetch"
        /\ SearchCaught(i, "searchNetworkError")

\* fetch resolves without response.ok: throw new Error()
SearchStatusError ==
    \E i \in 1..Len(searches) :
        /\ searches[i].pc = "fetch"
        /\ SearchCaught(i, "searchStatusError")

\* fetch resolves with response.ok: the call awaits response.json()
SearchResponse ==
    \E i \in 1..Len(searches) :
        /\ searches[i].pc = "fetch"
        /\ searches' = [searches EXCEPT ![i].pc = "json"]
        /\ lastEvent' = Event("searchResponse")
        /\ UNCHANGED <<phase, today, isLoading, error, searchResults, lat, lng, marker,
                       mapMarkers, mapCenter, data, chart, constructed, stackYears,
                       firstLastYear, minTemp, maxTemp, startDateInput, endDateInput,
                       loads, events>>

\* response.json() rejects
SearchParseError ==
    \E i \in 1..Len(searches) :
        /\ searches[i].pc = "json"
        /\ SearchCaught(i, "searchParseError")

\* a search that also moves the coordinate to its first result
SearchJsonMovesToFirst ==
    \E i \in 1..Len(searches), found \in SearchResponses :
        /\ searches[i].pc = "json"
        /\ searchResults' = slice(found, 3)
        /\ lat' = IF found # <<>> THEN parseFloat(found[1].lat) ELSE lat
        /\ lng' = IF found # <<>> THEN parseFloat(found[1].lon) ELSE lng
        /\ isLoading' = FALSE
        /\ searches' = RemoveAt(searches, i)
        /\ lastEvent' = Event("searchResults")
        /\ UNCHANGED <<phase, today, error, marker, mapMarkers, mapCenter,
                       data, chart, constructed, stackYears, firstLastYear, minTemp,
                       maxTemp, startDateInput, endDateInput, loads, events>>

\* this.searchResults = (...).slice(0, 3); finally
SearchJson ==
    \E i \in 1..Len(searches), found \in SearchResponses :
        /\ searches[i].pc = "json"
        /\ searchResults' = slice(found, 3)
        /\ isLoading' = FALSE
        /\ searches' = RemoveAt(searches, i)
        /\ lastEvent' = Event("searchResults")
        /\ UNCHANGED <<phase, today, error, lat, lng, marker, mapMarkers, mapCenter,
                       data, chart, constructed, stackYears, firstLastYear, minTemp,
                       maxTemp, startDateInput, endDateInput, loads, events>>

-----------------------------------------------------------------------------
(* The page under user events and network completions *)

Next ==
    \/ FirstUpdated
    \/ MapClick
    \/ SelectResult
    \/ StartDateChange
    \/ EndDateChange
    \/ ToggleStackYears
    \/ ToggleFirstLastYear
    \/ ToggleMinTemp
    \/ ToggleMaxTemp
    \/ Search
    \/ LoadNetworkError
    \/ LoadResponse
    \/ LoadStatusError
    \/ LoadParseError
    \/ LoadJson
    \/ SearchNetworkError
    \/ SearchStatusError
    \/ SearchResponse
    \/ SearchParseError
    \/ SearchJson

Spec == Init /\ [][Next]_vars

-----------------------------------------------------------------------------
(* Year stacking on every small timeseries: the page loads once and the user
   toggles the checkboxes *)

\* the days a sample of a drawn timeseries is taken on: day 60 of a common year,
\* day 61 and day 366 of a leap year, day 365 of a common year
SampleDates == {<<2019, 3, 1>>, <<2020, 3, 1>>, <<2020, 12, 31>>, <<2021, 12, 31>>}

\* the timeseries of at most MaxLen samples, in any order of the timestamps:
\* sample i has the maximum 20 + i and the minimum 10 + i, but for at most one
\* sample, whose minimum is null
SeriesBodies ==
    UNION {
        {Series(dates, [i \in 1..n |-> IF i = gap THEN <<>> ELSE <<10 + i>>],
                [i \in 1..n |-> <<20 + i>>]) :
            dates \in [1..n -> SampleDates], gap \in 0..n} :
        n \in 0..MaxLen}

LoadJsonSeries ==
    \E i \in 1..Len(loads), body \in SeriesBodies : LoadBody(i, body)

NextStack ==
    \/ FirstUpdated
    \/ LoadResponse
    \/ LoadJsonSeries
    \/ ToggleStackYears
    \/ ToggleFirstLastYear
    \/ ToggleMinTemp
    \/ ToggleMaxTemp

SpecStack == Init /\ [][NextStack]_vars

-----------------------------------------------------------------------------
(* The date inputs on every day of two years *)

AllDays == {d \in {2023, 2024} \X (1..12) \X (1..31) : IsDate(d)}

NextDate == FirstUpdated

InitDate == InitOn(AllDays)

SpecDate == InitDate /\ [][NextDate]_vars

-----------------------------------------------------------------------------
(* Claims *)

\* the handlers that call loadData
LoadingEvents == {"firstUpdated", "mapClick", "selectResult", "dateChange"}

\* the numbers a bucket or data array holds
Held(a) == {a.at[i] : i \in DOMAIN a.at}

\* the stacked view is on the canvas
StackedShown == chart # <<>> /\ chart[1].dayFormat = "DD-MM"

\* C1: after the year-stacking branch has run, every bucket has exactly 365
\* slots, each a number or null, and none holds the value of a sample taken on
\* day-of-year 366.
C1_BucketsHave365Slots ==
    (StackedShown /\ stackYears) =>
        \A k \in 1..Len(chart[1].datasets) :
            LET bucket == chart[1].datasets[k].data
                dates == data[1].timestamps
            IN  /\ bucket.length = 365
                /\ DOMAIN bucket.at \subseteq 0..364
                /\ \A i \in 1..Len(dates) :
                      DayOfYear(dates[i]) = 366 =>
                          /\ (10 + i) \notin Held(bucket)
                          /\ (20 + i) \notin Held(bucket)

\* C2: while a timeseries request of loadData is outstanding, isLoading is true.
C2_LoadingWhileOutstanding == loads # <<>> => isLoading

\* C3: once firstUpdated has run, the map carries at most one marker, it is the
\* one this.marker refers to, and it stands at the current (lat, lng).
C3_OneMarkerAtCoordinate ==
    phase = "ready" =>
        /\ BagCardinality(mapMarkers) <= 1
        /\ \A m \in BagToSet(mapMarkers) : m = [lat |-> lat, lng |-> lng]
        /\ marker = <<[lat |-> lat, lng |-> lng]>>

\* C3 witness: a result was selected after the first marker had been placed, and
\* the one marker on the map stands at the selected place.
C3_Witness ==
    /\ lastEvent.name = "selectResult"
    /\ lat # 4765
    /\ BagCardinality(mapMarkers) = 1
    /\ marker = <<[lat |-> lat, lng |-> lng]>>

\* C4: every failed timeseries load (no response, a non-2xx status, a body that
\* is no JSON, a JSON body without the expected features) ends with the generic
\* message in `error'.
C4_EveryFailureShowsError ==
    ( \/ lastEvent.name \in {"loadNetworkError", "loadStatusError", "loadParseError"}
      \/ (lastEvent.name = "loadBody" /\ data[1].features = <<>>) )
        => error = GenericError

\* C5: a step issues a timeseries request only if it is the initial load, a map
\* click, a result selection or a date change; a checkbox toggle leaves the
\* suspended loadData calls as they are.
C5_TogglesNeverFetch ==
    [][/\ Len(loads') > Len(loads) => lastEvent'.name \in LoadingEvents
       /\ lastEvent'.name = "checkbox" => loads' = loads]_vars

\* C5 witness: a checkbox was toggled with a chart on the canvas, and no request
\* is outstanding.
C5_Witness ==
    /\ lastEvent.name = "checkbox"
    /\ chart # <<>>
    /\ loads = <<>>

\* the place a geocoding result names, in hundredths of a degree
PlaceOf(result) ==
    IF result.display_name = "Graz" THEN <<4707, 1544>> ELSE <<4830, 1428>>

\* C6: the coordinate changes only in selectResult and in the map's click
\* handler; each of the two, with both date fields non-empty, sets lat/lng to
\* the selected or clicked place, leaves exactly one marker, at that place,
\* clears the error and issues exactly one request, for that place.
C6_LocationChange ==
    [][/\ <<lat', lng'>> # <<lat, lng>> => lastEvent'.name \in {"selectResult", "mapClick"}
       /\ lastEvent'.name = "mapClick" => <<lat', lng'>> \in ClickPoints
       /\ lastEvent'.name = "selectResult" =>
              \E i \in 1..Len(searchResults) : <<lat', lng'>> = PlaceOf(searchResults[i])
       /\ ( /\ lastEvent'.name \in {"selectResult", "mapClick"}
            /\ startDateInput # <<>>
            /\ endDateInput # <<>> ) =>
              /\ marker' = <<[lat |-> lat', lng |-> lng']>>
              /\ mapMarkers' = SetToBag({[lat |-> lat', lng |-> lng']})
              /\ error' = ""
              /\ Len(loads') = Len(loads) + 1
              /\ SubSeq(loads', 1, Len(loads)) = loads
              /\ loads'[Len(loads')].pc = "fetch"
              /\ loads'[Len(loads')].request.lat_lon = <<lat', lng'>>]_vars

\* C6 witness: Linz was selected with both date fields filled in; the newest
\* request is for Linz.
C6_Witness ==
    /\ lastEvent.name = "selectResult"
    /\ <<lat, lng>> = <<4830, 1428>>
    /\ startDateInput # <<>>
    /\ endDateInput # <<>>
    /\ loads # <<>>
    /\ loads[Len(loads)].request.lat_lon = <<4830, 1428>>

\* C7: loadData called while a date field is empty issues no request, leaves the
\* error empty and leaves isLoading, the data and the chart as they were.
C7_EmptyDateSkipsLoad ==
    [][( /\ lastEvent'.name \in LoadingEvents
         /\ (startDateInput' = <<>> \/ endDateInput' = <<>>) ) =>
              /\ loads' = loads
              /\ error' = ""
              /\ isLoading' = isLoading
              /\ data' = data
              /\ chart' = chart]_vars

\* C7 witness: the start date was emptied (the end date is filled in) while a
\* request was outstanding; the loading flag is still set.
C7_Witness ==
    /\ lastEvent.name = "dateChange"
    /\ startDateInput = <<>>
    /\ endDateInput # <<>>
    /\ loads # <<>>
    /\ isLoading

\* C8 as stated: when a request ends with a non-success status, the error is the
\* generic message, the data and the chart are as they were when the request was
\* issued, and no request is issued.
C8_StatusErrorRestoresIssueState ==
    [][lastEvent'.name = "loadStatusError" =>
          /\ error' = GenericError
          /\ data' = lastEvent'.load[1].seen.data
          /\ chart' = lastEvent'.load[1].seen.chart
          /\ Len(loads') = Len(loads) - 1]_vars

\* C8 amended: when a request ends with a non-success status, the error is the
\* generic message, the data and the chart are as they were just before the
\* completion was handled, and no request is issued.
C8_StatusErrorKeepsChart ==
    [][lastEvent'.name = "loadStatusError" =>
          /\ error' = GenericError
          /\ data' = data
          /\ chart' = chart
          /\ Len(loads') = Len(loads) - 1]_vars

\* C8 witness: a request ended with a non-success status while a chart was on
\* the canvas.
C8_Witness ==
    /\ lastEvent.name = "loadStatusError"
    /\ chart # <<>>
    /\ data # <<>>
    /\ error = GenericError

\* the calendar years of the stored timeseries
YearsPresent == {data[1].timestamps[i][1] : i \in 1..Len(data[1].timestamps)}

\* the years the stacked view shows
YearsRetained ==
    IF firstLastYear
    THEN {y \in YearsPresent : (\A o \in YearsPresent : y <= o) \/ (\A o \in YearsPresent : y >= o)}
    ELSE YearsPresent

\* C9: in the stacked view with both series enabled the datasets are the
\* minimum of every retained year in ascending year order, then the maximum of
\* every retained year in ascending year order.
C9_MinimaThenMaxima ==
    (StackedShown /\ stackYears /\ minTemp /\ maxTemp) =>
        LET sets == chart[1].datasets
            n == Cardinality(YearsRetained)
        IN  /\ Len(sets) = 2 * n
            /\ \A k \in 1..n :
                  /\ sets[k].label.text = "Min Temp"
                  /\ sets[n + k].label.text = "Max Temp"
                  /\ sets[n + k].label.year = sets[k].label.year
                  /\ DigitsValue(sets[k].label.year) \in YearsRetained
            /\ \A k \in 1..(n - 1) :
                  DigitsValue(sets[k].label.year) < DigitsValue(sets[k + 1].label.year)

\* C9 witness: three years arrive newest first, first/last-year is on, and the
\* four datasets are min-2019, min-2021, max-2019, max-2021.
C9_Witness ==
    /\ StackedShown /\ stackYears /\ firstLastYear /\ minTemp /\ maxTemp
    /\ Len(data[1].timestamps) = 3
    /\ data[1].timestamps[1][1] = 2021
    /\ data[1].timestamps[2][1] = 2020
    /\ data[1].timestamps[3][1] = 2019
    /\ Len(chart[1].datasets) = 4
    /\ chart[1].datasets[1].label = [text |-> "Min Temp", year |-> <<"2", "0", "1", "9">>]
    /\ chart[1].datasets[2].label = [text |-> "Min Temp", year |-> <<"2", "0", "2", "1">>]
    /\ chart[1].datasets[3].label = [text |-> "Max Temp", year |-> <<"2", "0", "1", "9">>]
    /\ chart[1].datasets[4].label = [text |-> "Max Temp", year |-> <<"2", "0", "2", "1">>]

\* C10: the date inputs start as January 1 of two years before today, and today,
\* each as the text YYYY-MM-DD of that day.
C10_DefaultDateRange ==
    lastEvent.name \in {"constructor", "firstUpdated"} =>
        /\ dateString(startDate(today)) = IsoDate(<<today[1] - 2, 1, 1>>)
        /\ dateString(endDate(today)) = IsoDate(today)
        /\ startDateInput = IsoDate(<<today[1] - 2, 1, 1>>)
        /\ endDateInput = IsoDate(today)


\* the texts of the labels of the datasets on the canvas
ShownTexts == [k \in 1..Len(chart[1].datasets) |-> chart[1].datasets[k].label.text]

\* the handler or continuation that ran last called createChart
ChartJustDrawn ==
    /\ lastEvent.name \in {"checkbox", "loadBody"}
    /\ data # <<>>
    /\ data[1].features # <<>>

\* C11: a Chart is constructed on the first createChart call and never again, so
\* at most one is bound to the canvas; after every call the bound chart has the
\* labels, the datasets and the day format of that call.
C11_OneChartUpdatedInPlace ==
    /\ constructed <= 1
    /\ (chart = <<>>) <=> (constructed = 0)
    /\ ChartJustDrawn =>
          /\ chart # <<>>
          /\ constructed = 1
          /\ chart[1].dayFormat = (IF stackYears THEN "DD-MM" ELSE "YYYY-MM-DD")
          /\ Len(chart[1].labels) = (IF stackYears THEN 365 ELSE Len(data[1].timestamps))
          /\ ~stackYears => chart[1].labels = data[1].timestamps
          /\ ~stackYears =>
                ShownTexts = (IF minTemp THEN <<"Min. Temp">> ELSE <<>>)
                                 \o (IF maxTemp THEN <<"Max. Temp">> ELSE <<>>)
          /\ stackYears =>
                \A k \in 1..Len(ShownTexts) :
                    \/ (minTemp /\ ShownTexts[k] = "Min Temp")
                    \/ (maxTemp /\ ShownTexts[k] = "Max Temp")
          /\ \A k \in 1..Len(chart[1].datasets) :
                /\ chart[1].datasets[k].pointRadius = 0
                /\ chart[1].datasets[k].borderWidth >= 1

\* C11 witness: with a chart on the canvas, "stack years" was switched off and
\* the one chart now shows the unstacked view.
C11_Witness ==
    /\ lastEvent.name = "checkbox"
    /\ constructed = 1
    /\ chart # <<>>
    /\ ~stackYears
    /\ chart[1].dayFormat = "YYYY-MM-DD"
    /\ Len(chart[1].datasets) = 2

\* the continuations a loadData call that issued a request finishes with
LoadCompletions == {"loadNetworkError", "loadStatusError", "loadParseError", "loadBody"}

\* C12: when a loadData call that issued a request has finished, with the body
\* stored or on any failure path, isLoading is false; and whenever no timeseries
\* request is outstanding isLoading is false.
C12_LoadingResetOnCompletion ==
    /\ lastEvent.name \in LoadCompletions => ~isLoading
    /\ loads = <<>> => ~isLoading

\* C12 witness: the last outstanding request failed with a non-2xx status, and
\* the flag is false.
C12_Witness ==
    /\ lastEvent.name = "loadStatusError"
    /\ loads = <<>>
    /\ ~isLoading
    /\ error = GenericError

\* C13: at most one timeseries request is outstanding at any time.
C13_OneRequestOutstanding == Len(loads) <= 1

\* C13, amended: a handler issues at most one timeseries request, and only the
\* initial load, a map click, a result selection or a date change issues one; so
\* a second request becomes outstanding only when one of these is handled while
\* a request is outstanding.
C13_OneRequestPerEvent ==
    [][/\ Len(loads') <= Len(loads) + 1
       /\ (Len(loads) <= 1 /\ Len(loads') > 1) =>
              (loads # <<>> /\ lastEvent'.name \in LoadingEvents)]_vars

\* C13 witness: the map was clicked after the initial request had completed, and
\* the request of the click is the only one outstanding.
C13_Witness ==
    /\ lastEvent.name = "mapClick"
    /\ Len(loads) = 1
    /\ loads[1].request.lat_lon = <<lat, lng>>
    /\ data # <<>>

\* C14: the labels of the stacked view are 365 month/day pairs, the calendar of
\* a 365-day year: entry i is day-of-year i + 1 of a common year, from Jan 1 to
\* Dec 31 with no Feb 29, whatever years the data covers.
C14_LabelsOfCommonYear ==
    StackedShown =>
        LET labels == chart[1].labels
        IN  /\ Len(labels) = 365
            /\ labels[1] = <<1, 1>>
            /\ labels[365] = <<12, 31>>
            /\ \A i \in 1..365 :
                  /\ labels[i] # <<2, 29>>
                  /\ labels[i] = <<AddDays(2021, i - 1)[2], AddDays(2021, i - 1)[3]>>

\* the oldest and the newest year of the stored timeseries
OldestAndNewest ==
    {y \in YearsPresent : \A o \in YearsPresent : y <= o}
        \cup {y \in YearsPresent : \A o \in YearsPresent : y >= o}

\* the positions of the datasets of a series on the canvas
ShownOf(series) ==
    {k \in 1..Len(chart[1].datasets) : chart[1].datasets[k].label.text = series}

\* C15: in the stacked view with first/last-year on, each enabled series shows
\* the oldest and the newest year of the data and no other, each once; when the
\* data has one year, that year is shown once per enabled series.
C15_FirstAndLastYearOnce ==
    (StackedShown /\ stackYears /\ firstLastYear) =>
        /\ \A series \in {"Min Temp", "Max Temp"} :
              LET wanted == IF series = "Min Temp" THEN minTemp ELSE maxTemp
                  shown == ShownOf(series)
              IN  /\ ~wanted => shown = {}
                  /\ wanted =>
                        /\ {DigitsValue(chart[1].datasets[k].label.year) : k \in shown}
                               = OldestAndNewest
                        /\ Cardinality(shown) = Cardinality(OldestAndNewest)
        /\ ShownOf("Min Temp") \cup ShownOf("Max Temp") = 1..Len(chart[1].datasets)

\* C15 witness: three samples of the one year 2020, first/last-year on, and one
\* minimum and one maximum dataset of 2020.
C15_Witness ==
    /\ StackedShown /\ stackYears /\ firstLastYear /\ minTemp /\ maxTemp
    /\ Len(data[1].timestamps) = 3
    /\ YearsPresent = {2020}
    /\ Len(chart[1].datasets) = 2
    /\ chart[1].datasets[1].label = [text |-> "Min Temp", year |-> <<"2", "0", "2", "0">>]
    /\ chart[1].datasets[2].label = [text |-> "Max Temp", year |-> <<"2", "0", "2", "0">>]

\* the fetched sequence of a series of the stored timeseries
Fetched(series) ==
    IF series \in {"Min Temp", "Min. Temp"} THEN data[1].features[1].TN
    ELSE data[1].features[1].TX

\* sample i (1-based) is the last sample of its day in the stored timeseries
LastOfDay(i) ==
    \A j \in (i + 1)..Len(data[1].timestamps) :
        data[1].timestamps[j] # data[1].timestamps[i]

\* C16: a null in the fetched minimum or maximum sequence stays null: the
\* unstacked view shows the fetched sequence index for index, and in the stacked
\* view a year's bucket has, at the position of each day sampled in that year,
\* what the day's sample has, null for null, and null at every other position;
\* no null becomes 0 and no value moves.
C16_NullsPreserved ==
    (chart # <<>> /\ data # <<>> /\ data[1].features # <<>>
        /\ chart[1].dayFormat = (IF stackYears THEN "DD-MM" ELSE "YYYY-MM-DD")) =>
        \A k \in 1..Len(chart[1].datasets) :
            LET shown == chart[1].datasets[k]
                source == Fetched(shown.label.text)
                dates == data[1].timestamps
                mine == {i \in 1..Len(dates) :
                            YearKey(dates[i]) = shown.label.year /\ LastOfDay(i)}
            IN  IF ~stackYears
                THEN /\ shown.data.length = source.length
                     /\ DOMAIN shown.data.at = DOMAIN source.at
                     /\ \A j \in DOMAIN source.at : shown.data.at[j] = source.at[j]
                ELSE /\ \A i \in mine :
                          LET slot == DayOfYear(dates[i]) - 1
                          IN  /\ slot < shown.data.length
                              /\ (slot \in DOMAIN shown.data.at) <=> ((i - 1) \in DOMAIN source.at)
                              /\ (slot \in DOMAIN shown.data.at) =>
                                     shown.data.at[slot] = source.at[i - 1]
                     /\ DOMAIN shown.data.at \subseteq {DayOfYear(dates[i]) - 1 : i \in mine}

\* C16 witness: the minimum of 2020-03-01 is null and that of 2020-12-31 is 12;
\* the stacked minimum of 2020 has null at the first day's position and 12 at the
\* second's.
C16_Witness ==
    /\ StackedShown /\ stackYears /\ minTemp
    /\ data[1].timestamps = <<<<2020, 3, 1>>, <<2020, 12, 31>>>>
    /\ DOMAIN data[1].features[1].TN.at = {1}
    /\ chart[1].datasets[1].label = [text |-> "Min Temp", year |-> <<"2", "0", "2", "0">>]
    /\ 60 \notin DOMAIN chart[1].datasets[1].data.at
    /\ 60 < chart[1].datasets[1].data.length
    /\ chart[1].datasets[1].data.at[DayOfYear(<<2020, 12, 31>>) - 1] = 12

\* the continuations a failed search ends with
SearchFailures == {"searchNetworkError", "searchStatusError", "searchParseError"}

\* C17: searchResults holds at most 3 entries, the first 3 of a response of the
\* geocoding endpoint in their order; and when a search has failed (no response,
\* a non-2xx status, a body that is no JSON) the generic message is in `error'
\* and no result of an earlier search is left in searchResults.
C17_FailedSearchClearsResults ==
    /\ Len(searchResults) <= 3
    /\ \E found \in SearchResponses :
          /\ Len(searchResults) <= Len(found)
          /\ \A k \in 1..Len(searchResults) : searchResults[k] = found[k]
          /\ Len(found) >= 3 => Len(searchResults) = 3
    /\ lastEvent.name \in SearchFailures =>
          /\ error = GenericError
          /\ searchResults = <<>>

\* C18: a timeseries request is never cancelled and its completion is not
\* guarded by order: a request leaves the outstanding ones only by its own
\* completion, one at a time, and a completion with a body stores the body and
\* draws it whether or not newer requests have been issued. (The witness is the
\* interleaving the claim states: the older of two overlapping requests
\* completes last and its data stays.)
C18_CompletionsNotGuarded ==
    [][Len(loads') < Len(loads) =>
          /\ Len(loads') = Len(loads) - 1
          /\ lastEvent'.name \in LoadCompletions
          /\ \E i \in 1..Len(loads) :
                /\ lastEvent'.load = <<loads[i]>>
                /\ loads' = RemoveAt(loads, i)
          /\ lastEvent'.name = "loadBody" =>
                /\ data' # <<>>
                /\ data'[1].features # <<>> => chart' # <<>>]_vars

\* C18 witness: the page's initial request and the request of a map click
\* overlapped, the click's request completed first, the initial request last
\* with a timeseries; no request is outstanding, and the data and the chart are
\* those of the request for the coordinate the page started with.
C18_Witness ==
    /\ events = 2
    /\ loads = <<>>
    /\ lastEvent.name = "loadBody"
    /\ lastEvent.load[1].request.lat_lon = <<4765, 1350>>
    /\ lastEvent.load[1].seen.data = <<>>
    /\ <<lat, lng>> = <<4821, 1637>>
    /\ startDateInput # <<>> /\ endDateInput # <<>>
    /\ data # <<>> /\ data[1].features # <<>>
    /\ chart # <<>>

\* C19: while no timeseries response has been stored, whatever toggles, failed
\* loads and skipped loads have happened, no Chart has been constructed and the
\* canvas has none; a chart exists only with stored data.
C19_NoChartBeforeData ==
    /\ data = <<>> => (chart = <<>> /\ constructed = 0)
    /\ chart # <<>> => (data # <<>> /\ constructed = 1)

\* C19 witness: the only request failed, a checkbox was then toggled, and there
\* is no data and no chart.
C19_Witness ==
    /\ lastEvent.name = "checkbox"
    /\ error = GenericError
    /\ loads = <<>>
    /\ data = <<>>
    /\ chart = <<>>
    /\ constructed = 0

\* C20: the stored data changes only in the step in which a timeseries request
\* completes with a parsed body; a search, from its start to its success or
\* failure, leaves the data, the coordinate, the marker and the outstanding
\* timeseries requests as they are.
C20_DataChangesOnlyOnSuccess ==
    [][/\ data' # data =>
              /\ lastEvent'.name = "loadBody"
              /\ Len(loads') = Len(loads) - 1
       /\ searches' # searches =>
              /\ data' = data
              /\ lat' = lat /\ lng' = lng
              /\ marker' = marker /\ mapMarkers' = mapMarkers
              /\ loads' = loads]_vars

\* C20 witness: with a timeseries stored, a search has returned results, and the
\* coordinate and the marker are still the page's first ones.
C20_Witness ==
    /\ lastEvent.name = "searchResults"
    /\ searchResults # <<>>
    /\ data # <<>>
    /\ <<lat, lng>> = <<4765, 1350>>
    /\ marker = <<[lat |-> 4765, lng |-> 1350]>>
    /\ loads = <<>>

====
